---- MODULE Spec2Model ----
(***************************************************************************)
(* Model of the gland HTTP core: RouteNormalizer (path canonicalisation),  *)
(* HttpAdapter (transport lifecycle) and HttpCore (event wiring and the    *)
(* system-event bridge).                                                   *)
(*                                                                         *)
(* Strings are sequences of one-character strings.  A call that can throw  *)
(* yields a record [ok, val, err].  Every operation records in `last` what *)
(* it was called with, whether it threw, and the ordered trace of the      *)
(* collaborator calls it made, so that "exactly once", "in this order" and *)
(* "not at all" are statements about one call.                             *)
(***************************************************************************)
EXTENDS Naturals, Sequences, FiniteSets

VARIABLES
    constructed,    \* TRUE once `new HttpCore(broker, options)` has returned
    listeners,      \* HttpEventCore: event name -> ordered listener entries
    transport,      \* HttpAdapter._transport (the ServerTransport collaborator)
    builds,         \* number of ServerTransport objects constructed so far
    middlewares,    \* channel.middleware: ordered registry of middleware entries
    routes,         \* channel.router: the route table
    settings,       \* PluginsManager: the configuration of each plugin unit
    last,           \* the most recent call on the HttpCore and what it did
    pathOp,         \* RouteNormalizer: which static method was applied last
    prefixIn,       \* RouteNormalizer: the prefix argument of that call
    pathIn,         \* RouteNormalizer: the path argument of that call
    pathOut,        \* RouteNormalizer: the outcome of that call
    pathOut2,       \* RouteNormalizer: outcome of normalizePath on pathOut
    deco            \* RouteNormalizer.validateMethod: the decorated member and
                    \* the outcome of validating it

coreVars == <<constructed, listeners, transport, builds, middlewares, routes,
              settings, last>>
pathVars == <<pathOp, prefixIn, pathIn, pathOut, pathOut2>>
\* everything RouteNormalizer's static methods work on
pureVars == <<pathOp, prefixIn, pathIn, pathOut, pathOut2, deco>>
vars == <<constructed, listeners, transport, builds, middlewares, routes,
          settings, last, pathOp, prefixIn, pathIn, pathOut, pathOut2, deco>>

(***************************************************************************)
(* Bounds of the model.                                                    *)
(***************************************************************************)
\* longest path string given to RouteNormalizer
MaxLen == 4
\* most listener entries held by the event channel, all events together
MaxListeners == 3
\* most ServerTransport constructions followed
MaxBuilds == 2
\* most entries held by the middleware registry
MaxMiddlewares == 3
\* most entries held by the route table
MaxRoutes == 2

(***************************************************************************)
(* RouteNormalizer: pure string functions.                                 *)
(***************************************************************************)
Chars == {"/", "a", "b"}

\* all strings over Chars of length at most n
StringsUpTo(n) == UNION {[1..k -> Chars] : k \in 0..n}

Paths == StringsUpTo(MaxLen)

\* an optional string argument: absent (undefined) or present with a value
Undefined == [def |-> FALSE, val |-> <<>>]
Some(s) == [def |-> TRUE, val |-> s]
Prefixes == {Undefined} \cup {Some(s) : s \in Paths}

\* outcome of a call that returns a string or throws
Ok(s) == [ok |-> TRUE, val |-> s, err |-> ""]
Throw(msg) == [ok |-> FALSE, val |-> <<>>, err |-> msg]
NoResult == [ok |-> FALSE, val |-> <<>>, err |-> "not called"]

\* s.replace(/\/+/g, '/'): every run of separators becomes one separator
RECURSIVE CollapseSlashes(_)
CollapseSlashes(s) ==
    IF Len(s) <= 1 THEN s
    ELSE IF s[1] = "/" /\ s[2] = "/" THEN CollapseSlashes(Tail(s))
    ELSE <<s[1]>> \o CollapseSlashes(Tail(s))

\* s.replace(/\/$/, ''): one separator at the very end is removed
StripTrailingSlash(s) ==
    IF Len(s) > 0 /\ s[Len(s)] = "/" THEN SubSeq(s, 1, Len(s) - 1) ELSE s

\* normalizePath without its guard against the empty path
normalizePath_NoGuard(path) ==
    Ok(StripTrailingSlash(CollapseSlashes(<<"/">> \o path)))

\* RouteNormalizer.normalizePath
normalizePath(path) ==
    IF path = <<>> THEN Throw("Path cannot be empty.")
    ELSE Ok(StripTrailingSlash(CollapseSlashes(<<"/">> \o path)))

\* RouteNormalizer.combinePaths; an undefined or empty prefix is falsy
combinePaths(prefix, path) ==
    LET normalizedPrefix ==
            IF prefix.def /\ prefix.val # <<>> THEN normalizePath(prefix.val)
            ELSE Ok(<<>>)
        normalizedPath == normalizePath(path)
    IN  IF ~normalizedPrefix.ok THEN normalizedPrefix
        ELSE IF ~normalizedPath.ok THEN normalizedPath
        ELSE Ok(CollapseSlashes(normalizedPrefix.val \o normalizedPath.val))

\* a normalized path: non-empty, one leading separator, no doubled and no
\* trailing separator
IsNormalized(s) ==
    /\ Len(s) >= 2
    /\ s[1] = "/"
    /\ s[Len(s)] # "/"
    /\ \A i \in 1..(Len(s) - 1) : ~(s[i] = "/" /\ s[i + 1] = "/")

(***************************************************************************)
(* RouteNormalizer.validateMethod: which members of a class it accepts.    *)
(* A method decorator receives the class's prototype for an instance       *)
(* method and the class's constructor function for a static method.        *)
(***************************************************************************)
\* member names a class may use for its methods
MemberNames == {"index", "handler", "call", "toString"}

\* the properties every function inherits from Function.prototype, and every
\* object from Object.prototype, among the member names
FunctionPrototype == {"call", "toString"}
ObjectPrototype == {"toString"}

\* target.constructor.prototype[propertyKey] === undefined.  The prototype's
\* constructor is the class, whose prototype holds the instance methods; the
\* class's constructor is Function, whose prototype holds call, apply, ...
isStatic(class, target, propertyKey) ==
    IF target = "prototype"
    THEN propertyKey \notin (class.instance \cup ObjectPrototype)
    ELSE propertyKey \notin (FunctionPrototype \cup ObjectPrototype)

\* RouteNormalizer.validateMethod
validateMethod(class, target, propertyKey) ==
    IF isStatic(class, target, propertyKey)
    THEN Throw("Decorators cannot be applied to static methods")
    ELSE Ok(<<>>)

\* classes: the names of their instance methods and of their static methods
Classes == [instance : SUBSET MemberNames, statics : SUBSET MemberNames]

NoDeco == [op |-> "none", class |-> [instance |-> {}, statics |-> {}],
           target |-> "prototype", key |-> "index", out |-> NoResult]

(***************************************************************************)
(* The event channel (HttpEventCore), the transport collaborator and the   *)
(* values passed around.                                                   *)
(***************************************************************************)
Events == {"options", "request", "$server:crashed", "$router:miss", "$request:failed"}

\* listener functions the application owns
UserListeners == {"L1", "L2"}

\* payloads the application emits: option objects and request contexts
Data == {"d1", "d2"}

\* application options handed to the constructor
Options == {"o1", "o2"}

\* plugin units, in the priority order used by setupMiddleware
PluginOrder == <<"cors", "bodyParser">>
Units == {PluginOrder[i] : i \in 1..Len(PluginOrder)}

\* the fields a plugin unit's configuration can be given
ConfigFields == {"k1", "k2"}

\* no field of any unit set by the application
NoSettings == [u \in Units |-> {}]

\* a registry entry: the path prefix it is scoped to (empty for a global
\* entry) and the middleware function
Entry(path, fn) == [path |-> path, fn |-> fn]

\* the units the options leave enabled: all of them by default, CORS alone
\* when the options switch the body parser off
EnabledUnits(options) == IF options = "o1" THEN Units ELSE {"cors"}

\* the names HttpCore.system dispatches on, and some it does not know
SystemNames == {"ready", "crashed", "router:miss", "request:failed"}
OtherNames == {"listening", "$server:crashed"}

\* the argument of system('ready', ...)
ReadyArgs ==
    {[port |-> "3000", host |-> "localhost", message |-> "up"],
     [port |-> "8080", host |-> "undefined", message |-> "undefined"]}

\* what the transport's listen can do: return, or throw one of these
Errors == {"EADDRINUSE", "EACCES"}
ListenOutcomes == {"ok"} \cup Errors

StackOf(error) == IF error = "EADDRINUSE" THEN "stack:EADDRINUSE"
                  ELSE IF error = "EACCES" THEN "stack:EACCES"
                  ELSE "stack:TypeError"

NoTransport == [built |-> FALSE, options |-> "none", state |-> "none"]

NoListeners == [e \in Events |-> <<>>]

NoCall == [op |-> "none", event |-> "", arg |-> <<>>, outcome |-> "",
           fault |-> [at |-> 0, kind |-> "none"],
           threw |-> FALSE, thrown |-> <<>>, trace |-> <<>>]

RECURSIVE SumLen(_, _)
SumLen(ls, evs) ==
    IF evs = {} THEN 0
    ELSE LET e == CHOOSE x \in evs : TRUE
         IN  Len(ls[e]) + SumLen(ls, evs \ {e})

\* listener entries held by the channel, over all events
TotalListeners(ls) == SumLen(ls, Events)

\* the state a call works on: the object's fields, plus what the call has
\* done so far (its trace) and whether it has thrown
Start ==
    [listeners |-> listeners, transport |-> transport, builds |-> builds,
     middlewares |-> middlewares, routes |-> routes, settings |-> settings,
     fault |-> [at |-> 0, kind |-> "none"], halted |-> FALSE,
     trace |-> <<>>, threw |-> FALSE, thrown |-> <<>>]

Log(s, entry) == [s EXCEPT !.trace = Append(@, entry)]

Raise(s, value) == [s EXCEPT !.threw = TRUE, !.thrown = value]

\* HttpEventCore.on / once / off
BusOn(s, event, fn) ==
    Log([s EXCEPT !.listeners[event] = Append(@, [fn |-> fn, once |-> FALSE])],
        <<"on", event, fn>>)

BusOnce(s, event, fn) ==
    Log([s EXCEPT !.listeners[event] = Append(@, [fn |-> fn, once |-> TRUE])],
        <<"once", event, fn>>)

BusOff(s, event, fn) ==
    Log([s EXCEPT !.listeners[event] = SelectSeq(@, LAMBDA e : e.fn # fn)],
        <<"off", event, fn>>)

(***************************************************************************)
(* The router and the pipeline (channel.router, channel.pipeline).         *)
(***************************************************************************)
\* the registration methods of HttpCore and the route handlers given to them
Verbs == {"get", "post", "put", "delete", "patch", "head", "options", "all"}
Handlers == {"h1", "h2"}

\* the paths routes are registered under, as written by the application
RoutePaths == {"/x", "x/", "/y"}

PathChars(p) ==
    CASE p = "/x" -> <<"/", "x">>
      [] p = "x/" -> <<"x", "/">>
      [] p = "/y" -> <<"/", "y">>

\* Router.register: the entry stored under (method, normalized path) replaces
\* whatever was stored under that key
RouterRegister(s, method, path, action) ==
    LET normalized == normalizePath(PathChars(path))
    IN  IF ~normalized.ok THEN Raise(s, <<normalized.err>>)
        ELSE Log([s EXCEPT !.routes =
                    {r \in @ : ~(r.method = method /\ r.path = normalized.val)}
                        \cup {[method |-> method, path |-> normalized.val,
                               handler |-> action]}],
                 <<"router.register", method, path, action>>)

\* Router.lookup: the exact (method, normalized path) entry, else the ALL
\* entry of that path, else a miss
RouterLookup(table, method, path) ==
    LET exact == {r \in table : r.method = method /\ r.path = path}
        any == {r \in table : r.method = "ALL" /\ r.path = path}
    IN  IF exact # {} THEN (CHOOSE r \in exact : TRUE).handler
        ELSE IF any # {} THEN (CHOOSE r \in any : TRUE).handler
        ELSE "miss"

\* the request a context carries: its method and its path
CtxOf(ctx) ==
    IF ctx = "d1" THEN [method |-> "GET", path |-> <<"/", "x">>]
    ELSE [method |-> "POST", path |-> <<"/", "y">>]

\* what the application's code does during one request: every stage and the
\* handler behave (at = 0), or the stage at position `at` of the chain (the
\* handler comes after the last stage) does not call its continuation
\* ("halt") or throws ("throw")
NoFault == [at |-> 0, kind |-> "none"]
Faults(n) == {NoFault} \cup [at : 1..(n + 1), kind : {"halt", "throw"}]

\* prefix is a prefix of path
StartsWith(path, prefix) ==
    /\ Len(prefix) <= Len(path)
    /\ SubSeq(path, 1, Len(prefix)) = prefix

\* the stages of one request: every global entry in registration order, then
\* every path-scoped entry whose prefix the request's path starts with
Stages(registry, path) ==
    SelectSeq(registry, LAMBDA e : e.path = <<>>)
        \o SelectSeq(registry, LAMBDA e : e.path # <<>> /\ StartsWith(path, e.path))

RECURSIVE BusEmit(_, _, _)

\* Pipeline: an uncaught failure is reported with safeEmit('request:failed')
\* and re-thrown when nobody observed it
PipelineFail(s, ctx) ==
    LET listener == Len(s.listeners["$request:failed"]) > 0
        s1 == Log(s, <<"pipeline.safeEmit", "$request:failed", "error", ctx>>)
        s2 == BusEmit(s1, "$request:failed", ctx)
    IN  IF listener THEN s2 ELSE Raise(s2, <<"error">>)

\* Pipeline: the stages from position i on, each calling the next
RECURSIVE RunStages(_, _, _, _)

\* a chain that advances past a stage that did not call its continuation
RunStages_IgnoreHalt(s, stages, i, ctx) ==
    IF i > Len(stages) THEN s
    ELSE LET s1 == Log(s, <<"mw", stages[i].fn, ctx>>)
         IN  IF s.fault.at = i /\ s.fault.kind = "throw"
             THEN Raise(s1, <<"error">>)
             ELSE RunStages(s1, stages, i + 1, ctx)

RunStages(s, stages, i, ctx) ==
    IF i > Len(stages) THEN s
    ELSE LET s1 == Log(s, <<"mw", stages[i].fn, ctx>>)
         IN  IF s.fault.at = i /\ s.fault.kind = "halt"
             THEN [s1 EXCEPT !.halted = TRUE]
             ELSE IF s.fault.at = i /\ s.fault.kind = "throw"
             THEN Raise(s1, <<"error">>)
             ELSE RunStages(s1, stages, i + 1, ctx)

\* a dispatch that treats a miss as a failure of the request
Dispatch_MissRaises(s, n, ctx) ==
    LET request == CtxOf(ctx)
        handler == RouterLookup(s.routes, request.method, normalizePath(request.path).val)
    IN  IF handler = "miss"
        THEN Raise(s, <<"error">>)
        ELSE LET s1 == Log(s, <<"handler", handler, ctx>>)
             IN  IF s.fault.at = n + 1 /\ s.fault.kind = "throw"
                 THEN Raise(s1, <<"error">>)
                 ELSE s1

\* Pipeline: route lookup and the matched handler, or 'router:miss'
Dispatch(s, n, ctx) ==
    LET request == CtxOf(ctx)
        handler == RouterLookup(s.routes, request.method, normalizePath(request.path).val)
    IN  IF handler = "miss"
        THEN BusEmit(Log(s, <<"pipeline.emit", "$router:miss", ctx>>), "$router:miss", ctx)
        ELSE LET s1 == Log(s, <<"handler", handler, ctx>>)
             IN  IF s.fault.at = n + 1 /\ s.fault.kind = "throw"
                 THEN Raise(s1, <<"error">>)
                 ELSE s1

\* Pipeline.execute(ctx): one pass over middleware and route dispatch
execute(s, ctx) ==
    LET stages == Stages(s.middlewares, normalizePath(CtxOf(ctx).path).val)
        s1 == RunStages(s, stages, 1, ctx)
        s2 == IF s1.threw \/ s1.halted THEN s1 ELSE Dispatch(s1, Len(stages), ctx)
        s3 == [s2 EXCEPT !.halted = FALSE]
    IN  IF s3.threw
        THEN PipelineFail([s3 EXCEPT !.threw = FALSE, !.thrown = <<>>], ctx)
        ELSE s3

(***************************************************************************)
(* HttpAdapter and HttpCore: the handlers, as functions from the state a   *)
(* call starts in to the state it leaves.                                  *)
(***************************************************************************)
\* HttpAdapter.init: builds the transport with the options and initializes it
init(s, options) ==
    LET s1 == Log(s, <<"init", options>>)
        s2 == Log([s1 EXCEPT !.transport = [built |-> TRUE, options |-> options,
                                             state |-> "created"],
                              !.builds = @ + 1],
                  <<"new ServerTransport", options>>)
    IN  Log([s2 EXCEPT !.transport.state = "initialized"], <<"transport.initialize">>)

\* a 'request' listener that runs the pipeline a second time
requestListener_Retry(s, ctx) ==
    LET s1 == execute(Log(s, <<"pipeline.execute", ctx>>), ctx)
    IN  IF s1.threw THEN s1
        ELSE execute(Log(s1, <<"pipeline.execute", ctx>>), ctx)

\* a 'request' listener that catches what the pipeline re-throws
requestListener_Catch(s, ctx) ==
    [execute(Log(s, <<"pipeline.execute", ctx>>), ctx)
        EXCEPT !.threw = FALSE, !.thrown = <<>>]

\* the 'request' listener of initializeEvents: ctx => pipeline.execute(ctx)
requestListener(s, ctx) == execute(Log(s, <<"pipeline.execute", ctx>>), ctx)

\* one listener called with the emitted payload
Invoke(s, fn, event, data) ==
    IF fn = "init" THEN init(s, data)
    ELSE IF fn = "pipeline" THEN requestListener(s, data)
    ELSE Log(s, <<"call", event, fn, data>>)

RECURSIVE InvokeAll(_, _, _, _)
InvokeAll(s, entries, event, data) ==
    IF entries = <<>> \/ s.threw THEN s
    ELSE InvokeAll(Invoke(s, Head(entries).fn, event, data), Tail(entries), event, data)

\* HttpEventCore.emit: every listener of the event, in registration order,
\* until one throws; entries registered with once are dropped
BusEmit(s, event, data) ==
    LET entries == s.listeners[event]
        s1 == [s EXCEPT !.listeners[event] = SelectSeq(@, LAMBDA e : ~e.once)]
    IN  InvokeAll(s1, entries, event, data)

\* HttpEventCore.safeEmit returns whether the event had any listener
HadListener(s, event) == Len(s.listeners[event]) > 0

\* the constructor subscribing with on instead of once
AdapterConstructor_On(s) == BusOn(s, "options", "init")

\* HttpAdapter constructor: this._events.once('options', this.init.bind(this))
AdapterConstructor(s) == BusOnce(s, "options", "init")

\* _listen re-throwing whether or not a listener observed the failure
ShouldRethrow_Always(listener) == TRUE

\* _listen swallowing the failure whether or not a listener observed it
ShouldRethrow_Never(listener) == FALSE

\* HttpAdapter._listen, the test `if (!listener) throw error`
ShouldRethrow(listener) == ~listener

\* HttpAdapter._listen; outcome is what the transport's listen does.  Without
\* a transport the member access itself throws a TypeError inside the try.
_listen(s, port, hostname, message, outcome) ==
    LET error == IF s.transport.built THEN outcome ELSE "TypeError"
        s1 == IF s.transport.built
              THEN Log(s, <<"transport.listen", port, hostname, message>>)
              ELSE s
    IN  IF error = "ok"
        THEN [s1 EXCEPT !.transport.state = "listening"]
        ELSE LET listener == HadListener(s1, "$server:crashed")
                 s2 == Log(s1, <<"safeEmit", "$server:crashed",
                                 "Failed to start HTTP server", error,
                                 StackOf(error), "now">>)
                 s3 == BusEmit(s2, "$server:crashed", error)
             IN  IF ShouldRethrow(listener) THEN Raise(s3, <<error>>) ELSE s3

\* HttpAdapter.shutdown: returns this._transport.close()
shutdown(s) ==
    IF s.transport.built
    THEN Log([s EXCEPT !.transport.state = "closed"], <<"transport.close">>)
    ELSE Raise(s, <<"TypeError">>)

\* PluginsManager.setupMiddleware: the middleware of every enabled unit, in
\* priority order
setupMiddleware(s, options) ==
    LET enabled == SelectSeq(PluginOrder, LAMBDA u : u \in EnabledUnits(options))
    IN  Log([s EXCEPT !.middlewares =
                @ \o [i \in 1..Len(enabled) |-> Entry(<<>>, enabled[i])]],
            <<"setupMiddleware">>)

\* initializeEvents registering the plugin middleware before 'options'
initializeEvents_PluginsFirst(s, options) ==
    LET s1 == BusOn(s, "request", "pipeline")
        s2 == setupMiddleware(s1, options)
    IN  BusEmit(Log(s2, <<"emit", "options", options>>), "options", options)

\* HttpCore.initializeEvents
initializeEvents(s, options) ==
    LET s1 == BusOn(s, "request", "pipeline")
        s2 == BusEmit(Log(s1, <<"emit", "options", options>>), "options", options)
    IN  setupMiddleware(s2, options)

\* HttpCore constructor, after super(httpBroker)
CoreConstructor(s, options) ==
    initializeEvents(AdapterConstructor(s), options)

\* the switch with no default branch: an unknown name falls to a case
SystemStrategy_NoDefault(event) ==
    CASE event = "ready" -> "listen"
      [] event = "router:miss" -> "$router:miss"
      [] event = "request:failed" -> "$request:failed"
      [] OTHER -> "$server:crashed"

\* the switch with 'crashed' wired to the wrong internal event
SystemStrategy_Miswired(event) ==
    CASE event = "ready" -> "listen"
      [] event = "crashed" -> "$request:failed"
      [] event = "router:miss" -> "$router:miss"
      [] event = "request:failed" -> "$request:failed"
      [] OTHER -> "throw"

\* middleware functions the application owns
UserMiddlewares == {"m1", "m2"}

\* argument values of HttpCore.use: a function, a string, an array of
\* functions, or something that is none of these
FnArg(f) == [kind |-> "function", fn |-> f, str |-> <<>>, arr |-> <<>>]
StrArg(p) == [kind |-> "string", fn |-> "", str |-> p, arr |-> <<>>]
ArrArg(a) == [kind |-> "array", fn |-> "", str |-> <<>>, arr |-> a]
NumArg == [kind |-> "number", fn |-> "", str |-> <<>>, arr |-> <<>>]

UseValues ==
    {FnArg(f) : f \in UserMiddlewares}
        \cup {StrArg(<<"/", "x">>), ArrArg(<<>>), ArrArg(<<"m1", "m2">>), NumArg}

\* the argument lists given to HttpCore.use: none, one, two, and one of three
UseArgs ==
    UNION {[1..k -> UseValues] : k \in 0..2}
        \cup {<<FnArg("m1"), FnArg("m2"), FnArg("m1")>>}

\* how an argument list is recorded in `last`
ArgKinds(args) == [i \in 1..Len(args) |-> args[i].kind]

\* MiddlewareRegistry.use(fn): a global entry
RegistryUse(s, fn) ==
    Log([s EXCEPT !.middlewares = Append(@, Entry(<<>>, fn))], <<"registry.use", fn>>)

\* MiddlewareRegistry.use(path, fn): an entry scoped to normalize(path)
RegistryUsePath(s, path, fn) ==
    LET prefix == normalizePath(path)
    IN  IF ~prefix.ok THEN Raise(s, <<prefix.err>>)
        ELSE Log([s EXCEPT !.middlewares = Append(@, Entry(prefix.val, fn))],
                 <<"registry.use", fn>>)

RECURSIVE RegistryUseEach(_, _)
RegistryUseEach(s, fns) ==
    IF fns = <<>> THEN s
    ELSE RegistryUseEach(RegistryUse(s, Head(fns)), Tail(fns))

\* HttpCore.use(...args)
use(s, args) ==
    IF Len(args) = 2
    THEN IF args[1].kind = "string" /\ args[2].kind = "function"
         THEN RegistryUsePath(s, args[1].str, args[2].fn)
         ELSE s
    ELSE IF Len(args) = 1 /\ args[1].kind = "function"
    THEN RegistryUse(s, args[1].fn)
    ELSE IF Len(args) >= 1 /\ args[1].kind = "array"
    THEN RegistryUseEach(s, args[1].arr)
    ELSE Raise(s, <<"TypeError">>)

\* PluginSettings.updateMany: the given field is merged into the unit's
\* configuration, the others stay
updateMany(s, unit, field) ==
    Log([s EXCEPT !.settings[unit] = @ \cup {field}], <<"updateMany", unit, field>>)

\* HttpCore.enableCors
enableCors(s, args) ==
    use(updateMany(s, "cors", args), <<FnArg("cors")>>)

\* HttpCore.useBodyParser: registers this._plugins.cors.createMiddleware()
useBodyParser(s, args) ==
    use(updateMany(s, "bodyParser", args), <<FnArg("cors")>>)

\* app.head registering its route under GET
VerbMethod_HeadAsGet(verb) ==
    CASE verb = "get" -> "GET"
      [] verb = "post" -> "POST"
      [] verb = "put" -> "PUT"
      [] verb = "delete" -> "DELETE"
      [] verb = "patch" -> "PATCH"
      [] verb = "head" -> "GET"
      [] verb = "options" -> "OPTIONS"
      [] verb = "all" -> "ALL"

\* HttpCore.get, post, put, delete, patch, head, options, all: the
\* RequestMethod each passes to _registerRoute
VerbMethod(verb) ==
    CASE verb = "get" -> "GET"
      [] verb = "post" -> "POST"
      [] verb = "put" -> "PUT"
      [] verb = "delete" -> "DELETE"
      [] verb = "patch" -> "PATCH"
      [] verb = "head" -> "HEAD"
      [] verb = "options" -> "OPTIONS"
      [] verb = "all" -> "ALL"

\* HttpCore._registerRoute
_registerRoute(s, method, path, action) == RouterRegister(s, method, path, action)

\* HttpCore.system: the switch, as name -> strategy
SystemStrategy(event) ==
    CASE event = "ready" -> "listen"
      [] event = "crashed" -> "$server:crashed"
      [] event = "router:miss" -> "$router:miss"
      [] event = "request:failed" -> "$request:failed"
      [] OTHER -> "throw"

\* HttpCore.system; listener is the ready argument or a listener function
system(s, event, listener, outcome) ==
    LET strategy == SystemStrategy(event)
    IN  IF strategy = "listen"
        THEN _listen(s, listener.port, listener.host, listener.message, outcome)
        ELSE IF strategy = "throw"
        THEN Raise(s, <<"Unknown system event: ", event>>)
        ELSE BusOn(s, strategy, listener)

\* HttpCore.emit
emit(s, type, data) == BusEmit(Log(s, <<"emit", type, data>>), type, data)

\* HttpCore.on and HttpCore.off
on(s, event, listener) == BusOn(s, event, listener)
off(s, event, listener) == BusOff(s, event, listener)

(***************************************************************************)
(* The HttpCore as a state machine: one action per public operation.       *)
(***************************************************************************)
\* the call leaves state s; op, event and arg say what was called, outcome
\* what the transport's listen did when the call reached it
Commit(s, op, event, arg, outcome) ==
    /\ listeners' = s.listeners
    /\ transport' = s.transport
    /\ builds' = s.builds
    /\ middlewares' = s.middlewares
    /\ routes' = s.routes
    /\ settings' = s.settings
    /\ last' = [op |-> op, event |-> event, arg |-> arg, outcome |-> outcome,
                fault |-> s.fault,
                threw |-> s.threw, thrown |-> s.thrown, trace |-> s.trace]

WithinBounds(s) ==
    /\ TotalListeners(s.listeners) <= MaxListeners
    /\ s.builds <= MaxBuilds
    /\ Len(s.middlewares) <= MaxMiddlewares
    /\ Cardinality(s.routes) <= MaxRoutes

\* new HttpCore(broker, options)
Construct ==
    /\ ~constructed
    /\ \E options \in Options :
        Commit(CoreConstructor(Start, options), "construct", "", <<options>>, "")
    /\ constructed' = TRUE
    /\ UNCHANGED pureVars

\* app.system('ready', {port, host, message})
SystemReady ==
    /\ constructed
    /\ \E a \in ReadyArgs, outcome \in ListenOutcomes :
        LET s == system(Start, "ready", a, outcome)
        IN  /\ WithinBounds(s)
            /\ Commit(s, "system", "ready", <<a.port, a.host, a.message>>, outcome)
    /\ UNCHANGED <<constructed, pureVars>>

\* app.system(name, listener) for every other name
SystemOther ==
    /\ constructed
    /\ \E event \in (SystemNames \cup OtherNames) \ {"ready"}, l \in UserListeners :
        LET s == system(Start, event, l, "ok")
        IN  /\ WithinBounds(s)
            /\ Commit(s, "system", event, <<l>>, "")
    /\ UNCHANGED <<constructed, pureVars>>

\* app.on(event, listener)
On ==
    /\ constructed
    /\ \E event \in Events, l \in UserListeners :
        LET s == on(Start, event, l)
        IN  /\ WithinBounds(s)
            /\ Commit(s, "on", event, <<l>>, "")
    /\ UNCHANGED <<constructed, pureVars>>

\* app.off(event, listener)
Off ==
    /\ constructed
    /\ \E event \in Events, l \in UserListeners :
        Commit(off(Start, event, l), "off", event, <<l>>, "")
    /\ UNCHANGED <<constructed, pureVars>>

\* app.emit(type, data); for a 'request' the application's stages and
\* handler behave as one of the faults says
Emit ==
    /\ constructed
    /\ \E type \in Events, data \in Data :
      \E fault \in (IF type = "request" THEN Faults(Len(middlewares)) ELSE {NoFault}) :
        LET s == emit([Start EXCEPT !.fault = fault], type, data)
        IN  /\ WithinBounds(s)
            /\ Commit(s, "emit", type, <<data>>, "")
    /\ UNCHANGED <<constructed, pureVars>>

\* app.use(...args)
Use ==
    /\ constructed
    /\ \E args \in UseArgs :
        LET s == use(Start, args)
        IN  /\ WithinBounds(s)
            /\ Commit(s, "use", "", ArgKinds(args), "")
    /\ UNCHANGED <<constructed, pureVars>>

\* app.enableCors(args)
EnableCors ==
    /\ constructed
    /\ \E field \in ConfigFields :
        LET s == enableCors(Start, field)
        IN  /\ WithinBounds(s)
            /\ Commit(s, "enableCors", "", <<field>>, "")
    /\ UNCHANGED <<constructed, pureVars>>

\* app.useBodyParser(args)
UseBodyParser ==
    /\ constructed
    /\ \E field \in ConfigFields :
        LET s == useBodyParser(Start, field)
        IN  /\ WithinBounds(s)
            /\ Commit(s, "useBodyParser", "", <<field>>, "")
    /\ UNCHANGED <<constructed, pureVars>>

\* app.get(path, action), app.post(path, action), ...
RegisterRoute(verb) ==
    /\ constructed
    /\ \E path \in RoutePaths, action \in Handlers :
        LET s == _registerRoute(Start, VerbMethod(verb), path, action)
        IN  /\ WithinBounds(s)
            /\ Commit(s, "route", verb, <<path, action>>, "")
    /\ UNCHANGED <<constructed, pureVars>>

RouteGet == RegisterRoute("get")
RoutePost == RegisterRoute("post")
RoutePut == RegisterRoute("put")
RouteDelete == RegisterRoute("delete")
RoutePatch == RegisterRoute("patch")
RouteHead == RegisterRoute("head")
RouteOptions == RegisterRoute("options")
RouteAll == RegisterRoute("all")

\* app.shutdown()
Shutdown ==
    /\ constructed
    /\ Commit(shutdown(Start), "shutdown", "", <<>>, "")
    /\ UNCHANGED <<constructed, pureVars>>

(***************************************************************************)
(* RouteNormalizer applied to its arguments.                                 *)
(***************************************************************************)
Normalize ==
    /\ pathOp = "none"
    /\ pathOp' = "normalizePath"
    /\ pathOut' = normalizePath(pathIn)
    /\ UNCHANGED <<prefixIn, pathIn, pathOut2>>
    /\ UNCHANGED <<coreVars, deco>>

\* normalizePath applied to a path normalizePath returned
NormalizeAgain ==
    /\ pathOp = "normalizePath"
    /\ pathOut.ok
    /\ pathOp' = "normalizePath twice"
    /\ pathOut2' = normalizePath(pathOut.val)
    /\ UNCHANGED <<prefixIn, pathIn, pathOut>>
    /\ UNCHANGED <<coreVars, deco>>

Combine ==
    /\ pathOp = "none"
    /\ pathOp' = "combinePaths"
    /\ pathOut' = combinePaths(prefixIn, pathIn)
    /\ UNCHANGED <<prefixIn, pathIn, pathOut2>>
    /\ UNCHANGED <<coreVars, deco>>

\* before `new HttpCore(...)`
InitCore ==
    /\ constructed = FALSE
    /\ listeners = NoListeners
    /\ transport = NoTransport
    /\ builds = 0
    /\ middlewares = <<>>
    /\ routes = {}
    /\ settings = NoSettings
    /\ last = NoCall

\* no RouteNormalizer call made
InitPure ==
    /\ pathOp = "none"
    /\ prefixIn = Undefined
    /\ pathIn = <<>>
    /\ pathOut = NoResult
    /\ pathOut2 = NoResult
    /\ deco = NoDeco

Init == InitCore /\ InitPure

Next == Construct \/ SystemReady \/ SystemOther \/ On \/ Off \/ Emit \/ Shutdown

Spec == Init /\ [][Next]_vars

\* a decorator applied to a method calls validateMethod(target, propertyKey)
Validate ==
    /\ deco.op = "decorate"
    /\ deco' = [deco EXCEPT !.op = "validateMethod",
                            !.out = validateMethod(deco.class, deco.target, deco.key)]
    /\ UNCHANGED <<coreVars, pathVars>>

NextDecorator == Validate

\* a class and one of its methods, instance or static, about to be decorated
InitDecorator ==
    /\ InitCore
    /\ pathOp = "none"
    /\ prefixIn = Undefined
    /\ pathIn = <<>>
    /\ pathOut = NoResult
    /\ pathOut2 = NoResult
    /\ \E c \in Classes, t \in {"prototype", "constructor"}, k \in MemberNames :
        /\ k \in (IF t = "prototype" THEN c.instance ELSE c.statics)
        /\ deco = [op |-> "decorate", class |-> c, target |-> t, key |-> k,
                   out |-> NoResult]

SpecDecorator == InitDecorator /\ [][NextDecorator]_vars

\* the middleware registration surface
NextUse == Construct \/ Use \/ EnableCors \/ UseBodyParser

SpecUse == Init /\ [][NextUse]_vars

\* the route registration surface
NextRoutes ==
    Construct \/ RouteGet \/ RoutePost \/ RoutePut \/ RouteDelete \/ RoutePatch
        \/ RouteHead \/ RouteOptions \/ RouteAll

SpecRoutes == Init /\ [][NextRoutes]_vars

\* the middleware chain: middleware and routes are set up and requests emitted
NextChain == Construct \/ Use \/ RouteGet \/ Emit

SpecChain == Init /\ [][NextChain]_vars

\* request dispatch: routes are set up, listeners are registered on the system
\* events, and requests are emitted
NextDispatch == Construct \/ RouteGet \/ SystemOther \/ Emit

SpecDispatch == Init /\ [][NextDispatch]_vars

NextPath == Normalize \/ NormalizeAgain \/ Combine

\* the arguments of the RouteNormalizer call, drawn from the bounded inputs
InitPath ==
    /\ InitCore
    /\ pathOp = "none"
    /\ prefixIn \in Prefixes
    /\ pathIn \in Paths
    /\ pathOut = NoResult
    /\ pathOut2 = NoResult
    /\ deco = NoDeco

SpecPath == InitPath /\ [][NextPath]_vars

(***************************************************************************)
(* Properties.                                                             *)
(***************************************************************************)
\* the entries of a trace of one kind, in order
Entries(t, kind) == SelectSeq(t, LAMBDA e : e[1] = kind)

\* the internal event a system name stands for
InternalEvent(name) ==
    CASE name = "crashed" -> "$server:crashed"
      [] name = "router:miss" -> "$router:miss"
      [] name = "request:failed" -> "$request:failed"

\* the call just made was system('ready', ...) and the transport's listen threw
ListenFailed(call) ==
    /\ call.op = "system"
    /\ call.event = "ready"
    /\ call.outcome \in Errors

\* C1: when the transport's listen fails inside _listen, '$server:crashed' is
\* emitted exactly once with {message, error, stack, timestamp}; every
\* listener registered at that moment is called, in order; the call throws
\* if and only if there was none, and what it throws is the transport's error.
C1_CrashedOrRethrown ==
    [][ListenFailed(last') =>
          LET e == last'.outcome
              before == listeners["$server:crashed"]
          IN  /\ Entries(last'.trace, "safeEmit") =
                    << <<"safeEmit", "$server:crashed",
                         "Failed to start HTTP server", e, StackOf(e), "now">> >>
              /\ Entries(last'.trace, "call") =
                    [i \in 1..Len(before) |->
                        <<"call", "$server:crashed", before[i].fn, e>>]
              /\ last'.threw <=> (before = <<>>)
              /\ last'.threw => last'.thrown = <<e>>]_vars

\* a failed listen observed by two listeners, and not re-thrown
C1_Witness ==
    /\ ListenFailed(last)
    /\ ~last.threw
    /\ Len(Entries(last.trace, "call")) = 2

\* C2: for every name outside {ready, crashed, router:miss, request:failed}
\* system throws an error naming it, adds no listener to any event and does
\* not reach the transport.
C2_UnknownNameThrows ==
    [][(last'.op = "system" /\ last'.event \notin SystemNames) =>
          /\ last'.threw
          /\ last'.thrown = <<"Unknown system event: ", last'.event>>
          /\ last'.trace = <<>>
          /\ UNCHANGED <<listeners, transport, builds, middlewares>>]_vars

\* system('$server:crashed', listener) threw, with listeners already present
C2_Witness ==
    /\ last.op = "system"
    /\ last.event = "$server:crashed"
    /\ last.threw
    /\ listeners["$server:crashed"] # <<>>

\* C3: 'ready' calls the transport's listen exactly once with the given port,
\* host and message and registers nothing; 'crashed', 'router:miss' and
\* 'request:failed' append the listener to their own internal event, leave
\* every other event's listeners alone and never call listen.
C3_StrategyPerName ==
    [][(last'.op = "system" /\ last'.event \in SystemNames) =>
          IF last'.event = "ready"
          THEN /\ Entries(last'.trace, "transport.listen") =
                     << <<"transport.listen">> \o last'.arg >>
               /\ Entries(last'.trace, "on") = <<>>
               /\ listeners' = listeners
          ELSE /\ Entries(last'.trace, "transport.listen") = <<>>
               /\ transport' = transport
               /\ ~last'.threw
               /\ listeners' =
                    [listeners EXCEPT ![InternalEvent(last'.event)] =
                        Append(@, [fn |-> last'.arg[1], once |-> FALSE])]]_vars

\* a listener added through system('request:failed', ...) while another
\* event already has one
C3_Witness ==
    /\ last.op = "system"
    /\ last.event = "request:failed"
    /\ Len(listeners["$request:failed"]) = 1
    /\ Len(listeners["$server:crashed"]) = 1

\* C4: normalizePath is idempotent: for every non-empty path p, also one made
\* of separators only, normalizePath(normalizePath(p)) succeeds and equals
\* normalizePath(p).
C4_Idempotent ==
    (pathOp = "normalizePath twice" /\ pathIn # <<>>) =>
        /\ pathOut2.ok
        /\ pathOut2 = pathOut

\* C5: for every non-empty path the result of normalizePath is a normalized
\* path: non-empty, exactly one leading separator, no two adjacent separators
\* and no trailing separator.
C5_ResultNormalized ==
    (pathOp = "normalizePath" /\ pathIn # <<>>) =>
        /\ pathOut.ok
        /\ IsNormalized(pathOut.val)

\* C6: normalizePath("") throws instead of returning a path, combinePaths
\* with an empty path throws the same error for every prefix, and no call
\* that was given an empty path returns.
C6_EmptyPathFails ==
    (pathOp \in {"normalizePath", "combinePaths"} /\ pathIn = <<>>) =>
        pathOut = Throw("Path cannot be empty.")

\* combinePaths given a non-empty prefix and the empty path has thrown
C6_Witness ==
    /\ pathOp = "combinePaths"
    /\ prefixIn.def
    /\ prefixIn.val # <<>>
    /\ pathIn = <<>>
    /\ ~pathOut.ok

\* what C7 says combinePaths returns: normalizePath of the concatenation of
\* the normalized prefix (empty when the prefix is absent or empty) and the
\* normalized path
NormalizedConcat(prefix, path) ==
    LET pre == IF prefix.def /\ prefix.val # <<>> THEN normalizePath(prefix.val).val
               ELSE <<>>
    IN  normalizePath(pre \o normalizePath(path).val)

\* C7: for every prefix and every non-empty path, combinePaths(prefix, path)
\* equals normalizePath of the concatenation of the normalized prefix and the
\* normalized path, and is itself a normalized path.
C7_CombineIsNormalizedConcat ==
    (pathOp = "combinePaths" /\ pathIn # <<>>) =>
        /\ pathOut = NormalizedConcat(prefixIn, pathIn)
        /\ pathOut.ok
        /\ IsNormalized(pathOut.val)

\* the position of the first entry of a kind in a trace, 0 when there is none
FirstOf(t, kind) ==
    IF \E i \in 1..Len(t) : t[i][1] = kind
    THEN CHOOSE i \in 1..Len(t) :
            /\ t[i][1] = kind
            /\ \A j \in 1..(i - 1) : t[j][1] # kind
    ELSE 0

\* C8: the adapter's subscription to 'options' is one-shot: the emission made
\* during construction runs init and builds and initializes the transport
\* with the constructor's options, exactly once; every later emission of
\* 'options' through HttpCore.emit runs no init and leaves the transport as
\* it was.
C8_OptionsOneShot ==
    [][/\ last'.op = "construct" =>
            /\ Entries(last'.trace, "init") = << <<"init", last'.arg[1]>> >>
            /\ Len(Entries(last'.trace, "new ServerTransport")) = 1
            /\ Len(Entries(last'.trace, "transport.initialize")) = 1
            /\ transport' = [built |-> TRUE, options |-> last'.arg[1],
                             state |-> "initialized"]
            /\ builds' = 1
       /\ (last'.op = "emit" /\ last'.event = "options") =>
            /\ Entries(last'.trace, "init") = <<>>
            /\ Entries(last'.trace, "new ServerTransport") = <<>>
            /\ Entries(last'.trace, "transport.initialize") = <<>>
            /\ transport' = transport
            /\ builds' = 1]_vars

\* 'options' emitted again after construction, reaching a user listener
C8_Witness ==
    /\ last.op = "emit"
    /\ last.event = "options"
    /\ Len(Entries(last.trace, "call")) = 1
    /\ transport.built
    /\ transport.options \notin Data

\* the plugin middleware that setupMiddleware registers for the options
PluginMiddleware(options) ==
    LET enabled == SelectSeq(PluginOrder, LAMBDA u : u \in EnabledUnits(options))
    IN  [i \in 1..Len(enabled) |-> Entry(<<>>, enabled[i])]

\* C9: during construction 'options' is emitted once, the transport is
\* initialized in response and only then is the plugin middleware registered;
\* the transport's listen is only ever called on a constructed HttpCore whose
\* transport is already initialized and whose plugin middleware is already
\* registered.
C9_StartupOrder ==
    [][/\ last'.op = "construct" =>
            LET t == last'.trace
            IN  /\ Len(Entries(t, "emit")) = 1
                /\ Len(Entries(t, "setupMiddleware")) = 1
                /\ 0 < FirstOf(t, "emit")
                /\ FirstOf(t, "emit") < FirstOf(t, "init")
                /\ FirstOf(t, "init") < FirstOf(t, "transport.initialize")
                /\ FirstOf(t, "transport.initialize") < FirstOf(t, "setupMiddleware")
                /\ Entries(t, "transport.listen") = <<>>
       /\ Entries(last'.trace, "transport.listen") # <<>> =>
            /\ constructed
            /\ transport.built
            /\ transport.state \in {"initialized", "listening", "closed"}
            /\ Len(middlewares) >= Len(PluginMiddleware(transport.options))
            /\ SubSeq(middlewares, 1, Len(PluginMiddleware(transport.options))) =
                    PluginMiddleware(transport.options)]_vars

\* listen was called and succeeded
C9_Witness ==
    /\ last.op = "system"
    /\ last.event = "ready"
    /\ Len(Entries(last.trace, "transport.listen")) = 1
    /\ transport.state = "listening"
    /\ middlewares # <<>>

\* C10: every emitted 'request' event runs pipeline.execute exactly once, with
\* the emitted context, whatever other listeners exist; nothing else runs it.
C10_OneExecutionPerRequest ==
    Entries(last.trace, "pipeline.execute") =
        IF last.op = "emit" /\ last.event = "request"
        THEN << <<"pipeline.execute", last.arg[1]>> >>
        ELSE <<>>

\* a 'request' emitted while two user listeners are also subscribed to it
C10_Witness ==
    /\ last.op = "emit"
    /\ last.event = "request"
    /\ Len(listeners["request"]) = 3
    /\ Len(Entries(last.trace, "call")) = 2
    /\ Len(Entries(last.trace, "pipeline.execute")) = 1

\* the call just made was emit('request', ctx)
RequestEmitted(call) == call.op = "emit" /\ call.event = "request"

\* the stages the chain has for the request of the call
StagesFor(call) ==
    Stages(middlewares, normalizePath(CtxOf(call.arg[1]).path).val)

\* the handler the route table has for the request of the call, or "miss"
HandlerFor(call) ==
    LET request == CtxOf(call.arg[1])
    IN  RouterLookup(routes, request.method, normalizePath(request.path).val)

\* the stage of the call's chain that halted or threw, 0 if none did
FaultyStage(call, kind) ==
    IF call.fault.kind = kind /\ call.fault.at <= Len(StagesFor(call))
    THEN call.fault.at ELSE 0

\* the call's request failed: a stage threw, or every stage continued and
\* the matched handler threw
RequestFailed(call) ==
    /\ RequestEmitted(call)
    /\ \/ FaultyStage(call, "throw") > 0
       \/ /\ call.fault = [at |-> Len(StagesFor(call)) + 1, kind |-> "throw"]
          /\ HandlerFor(call) # "miss"

\* C14: when stage i of a request's chain does not call its continuation, the
\* stages that ran are exactly the first i of the chain, no handler runs,
\* neither 'router:miss' nor 'request:failed' is emitted, and nothing is thrown.
C14_ShortCircuit ==
    (RequestEmitted(last) /\ FaultyStage(last, "halt") > 0) =>
        LET stages == StagesFor(last)
        IN  /\ Entries(last.trace, "mw") =
                  [i \in 1..last.fault.at |-> <<"mw", stages[i].fn, last.arg[1]>>]
            /\ Entries(last.trace, "handler") = <<>>
            /\ Entries(last.trace, "pipeline.emit") = <<>>
            /\ Entries(last.trace, "pipeline.safeEmit") = <<>>
            /\ ~last.threw

\* a three-stage chain halted by its second stage, for a request with a route
C14_Witness ==
    /\ RequestEmitted(last)
    /\ Len(StagesFor(last)) = 3
    /\ FaultyStage(last, "halt") = 2
    /\ HandlerFor(last) # "miss"
    /\ Len(Entries(last.trace, "mw")) = 2

\* C15: a request that reaches dispatch and matches no route, under its own
\* method or under ALL, emits '$router:miss' exactly once, to every listener of
\* that event once; no handler runs, 'request:failed' is not emitted and the
\* emit does not throw, with or without a listener.
C15_MissEmittedOnce ==
    [][(/\ RequestEmitted(last')
        /\ FaultyStage(last', "halt") = 0
        /\ FaultyStage(last', "throw") = 0
        /\ HandlerFor(last') = "miss") =>
          LET ctx == last'.arg[1]
              before == listeners["$router:miss"]
          IN  /\ Entries(last'.trace, "pipeline.emit") =
                    << <<"pipeline.emit", "$router:miss", ctx>> >>
              /\ Entries(last'.trace, "call") =
                    [i \in 1..Len(before) |-> <<"call", "$router:miss", before[i].fn, ctx>>]
              /\ Entries(last'.trace, "handler") = <<>>
              /\ Entries(last'.trace, "pipeline.safeEmit") = <<>>
              /\ ~last'.threw]_vars

\* a miss nobody listens to, while another route is registered
C15_Witness ==
    /\ RequestEmitted(last)
    /\ HandlerFor(last) = "miss"
    /\ routes # {}
    /\ listeners["$router:miss"] = <<>>
    /\ Len(Entries(last.trace, "pipeline.emit")) = 1
    /\ ~last.threw

\* C16: a request whose middleware or handler throws is reported with exactly
\* one safeEmit of '$request:failed', to every listener of that event once; the
\* emit throws the error if and only if that event had no listener.
C16_FailedOnceOrRethrown ==
    [][RequestFailed(last') =>
          LET ctx == last'.arg[1]
              before == listeners["$request:failed"]
          IN  /\ Entries(last'.trace, "pipeline.safeEmit") =
                    << <<"pipeline.safeEmit", "$request:failed", "error", ctx>> >>
              /\ Entries(last'.trace, "call") =
                    [i \in 1..Len(before) |-> <<"call", "$request:failed", before[i].fn, ctx>>]
              /\ Entries(last'.trace, "pipeline.emit") = <<>>
              /\ last'.threw <=> (before = <<>>)
              /\ last'.threw => last'.thrown = <<"error">>]_vars

\* a handler that threw with nobody listening: the emit re-threw the error
C16_Witness ==
    /\ RequestFailed(last)
    /\ FaultyStage(last, "throw") = 0
    /\ listeners["$request:failed"] = <<>>
    /\ last.threw

\* the calls an action made to listeners of '$server:crashed'
CrashedCalls(call) ==
    SelectSeq(call.trace, LAMBDA e : e[1] = "call" /\ e[2] = "$server:crashed")

\* C19: a listen failure reaches exactly the '$server:crashed' listeners that
\* were registered when system('ready', ...) was called: with none the call
\* throws the transport's error and calls no listener, otherwise each is called
\* once and nothing is thrown; system('crashed', listener) only appends the
\* listener and calls nothing, so a listener registered later is not called
\* for a failure that came before.
C19_OnlyEarlierListeners ==
    [][/\ ListenFailed(last') =>
            LET before == listeners["$server:crashed"]
            IN  /\ Len(CrashedCalls(last')) = Len(before)
                /\ \A l \in UserListeners :
                      Len(SelectSeq(CrashedCalls(last'), LAMBDA e : e[3] = l))
                          = Len(SelectSeq(before, LAMBDA e : e.fn = l))
                /\ (before = <<>>) => (last'.threw /\ last'.thrown = <<last'.outcome>>)
                /\ (before # <<>>) => ~last'.threw
       /\ (last'.op = "system" /\ last'.event = "crashed") =>
            /\ last'.trace = << <<"on", "$server:crashed", last'.arg[1]>> >>
            /\ ~last'.threw
            /\ listeners' = [listeners EXCEPT !["$server:crashed"] =
                                Append(@, [fn |-> last'.arg[1], once |-> FALSE])]
       /\ (CrashedCalls(last') # <<>>) =>
            \/ ListenFailed(last')
            \/ last'.op = "emit" /\ last'.event = "$server:crashed"]_vars

\* a failed listen thrown to the caller of system('ready', ...) because no
\* listener was registered yet, while other events do have listeners
C19_Witness ==
    /\ ListenFailed(last)
    /\ listeners["$server:crashed"] = <<>>
    /\ TotalListeners(listeners) > 1
    /\ last.threw
    /\ CrashedCalls(last) = <<>>

\* C12: validateMethod throws for every member that is not an instance member
\* of the class, in particular for every static method whatever its name, and
\* returns normally for every instance method.
C12_RejectsExactlyStatics ==
    deco.op = "validateMethod" =>
        (~deco.out.ok <=> deco.key \notin deco.class.instance
                          \/ deco.target = "constructor")

\* C11: every call to HttpCore.use either registers at least one middleware
\* entry or throws; none returns normally with the registry as it was.
C11_UseRegistersOrThrows ==
    [][last'.op = "use" =>
          (last'.threw \/ Len(middlewares') > Len(middlewares))]_vars

\* C17: useBodyParser(args) merges args into the body parser's configuration
\* and appends exactly one middleware, the one the body-parser unit produces.
C17_BodyParserMiddleware ==
    [][last'.op = "useBodyParser" =>
          /\ settings' = [settings EXCEPT !["bodyParser"] = @ \cup {last'.arg[1]}]
          /\ middlewares' = Append(middlewares, Entry(<<>>, "bodyParser"))]_vars

\* C18: whatever enableCors and useBodyParser calls follow construction, the
\* registry holds at most one middleware produced by the CORS unit.
C18_AtMostOneCors ==
    Cardinality({i \in 1..Len(middlewares) : middlewares[i].fn = "cors"}) <= 1

\* the request method each registration method stands for
MethodNamed(verb) ==
    CASE verb = "get" -> "GET"
      [] verb = "post" -> "POST"
      [] verb = "put" -> "PUT"
      [] verb = "delete" -> "DELETE"
      [] verb = "patch" -> "PATCH"
      [] verb = "head" -> "HEAD"
      [] verb = "options" -> "OPTIONS"
      [] verb = "all" -> "ALL"

\* the normalized form of the route paths
NormalizedRoutePath(p) == IF p = "/y" THEN <<"/", "y">> ELSE <<"/", "x">>

\* C13: the route table holds at most one entry per (method, normalized
\* path); a registration replaces the handler stored under its own key, so a
\* lookup of that key yields the handler registered last, and it leaves the
\* entries of every other method and every other normalized path as they were.
C13_LastWriteWins ==
    [][last'.op = "route" =>
          LET key == [method |-> MethodNamed(last'.event),
                      path |-> NormalizedRoutePath(last'.arg[1])]
              same(r) == r.method = key.method /\ r.path = key.path
          IN  /\ ~last'.threw
              /\ RouterLookup(routes', key.method, key.path) = last'.arg[2]
              /\ {r \in routes' : same(r)} =
                    {[method |-> key.method, path |-> key.path,
                      handler |-> last'.arg[2]]}
              /\ {r \in routes' : ~same(r)} = {r \in routes : ~same(r)}
              /\ \A r1, r2 \in routes' :
                    (r1.method = r2.method /\ r1.path = r2.path) => r1 = r2]_vars

\* a route registered as "x/" next to an entry of another method for "/x"
C13_Witness ==
    /\ last.op = "route"
    /\ last.arg = <<"x/", "h2">>
    /\ \E r1, r2 \in routes :
        /\ r1.path = r2.path
        /\ r1.method # r2.method
        /\ r1.method = MethodNamed(last.event)
        /\ r1.handler = "h2"
        /\ r2.handler = "h1"

====
